---- MODULE Spec2Model ----
(***************************************************************************)
(* PortProvider (src/src/shared/port-provider.js): the broker that runs in *)
(* the host frame, listens for `request` messages from other frames and    *)
(* hands out the two ports of a MessageChannel.                            *)
(*                                                                         *)
(* The state is the object's fields (_hypothesisAppsOrigin, _sentChannels, *)
(* _sidebarHostChannel, the registered listeners),                         *)
(* the MessageChannel objects of the host realm with the ports that were   *)
(* transferred out of it, and `log`, the history of everything the handler *)
(* did, in program order.  on() only forwards to the emitter; the handlers *)
(* of 'frameConnected' belong to the host application and are not modelled.*)
(***************************************************************************)
EXTENDS Integers, Sequences, FiniteSets, TLC

VARIABLES
  hypothesisAppsOrigin,  \* this._hypothesisAppsOrigin
  sentChannels,          \* this._sentChannels : source window -> set of Channel
  sidebarHostChannel,    \* this._sidebarHostChannel (id of the MessageChannel)
  channels,              \* number of MessageChannel objects created so far; ids 0..channels-1
  detached,              \* ports already transferred out of the host realm
  listeners,             \* number of 'message' listeners held by this._listeners
  log,                   \* history: effects of handleRequest, in program order
  last                   \* history: the latest operation, or what became of the latest event

vars == <<hypothesisAppsOrigin, sentChannels, sidebarHostChannel, channels,
          detached, listeners, log, last>>

-----------------------------------------------------------------------------
(* Bounds of the model *)

\* at most this many (source, channel) records are made in one behaviour
MaxGrants == 2
\* listen() is called at most this many times between two destroy() calls
MaxListeners == 2

-----------------------------------------------------------------------------
(* The values that flow through the broker *)

Frames == {"guest", "host", "sidebar", "notebook"}

\* the windows of other frames that post messages to the host window
Windows == {"w1", "w2"}
\* event.source can also be a MessagePort (or null, or a ServiceWorker)
Sources == Windows \cup {"port"}

\* origins the constructor may be given (the origin of the hypothesis apps)
AppsOrigins == {"https://sidebar.example"}
\* event.origin: a serialised tuple origin, or "null" for an opaque origin
Origins == AppsOrigins \cup {"https://evil.example", "null"}

Request(frame1, frame2) == [frame1 |-> frame1, frame2 |-> frame2, type |-> "request"]

\* event.data: the four requests of the policy table, and near misses
Data ==
  { Request("guest", "host"), Request("guest", "sidebar"),
    Request("sidebar", "host"), Request("notebook", "sidebar"),
    Request("notebook", "host"),
    [frame1 |-> "guest", frame2 |-> "host", type |-> "offer"],
    [frame1 |-> "guest", frame2 |-> "host", type |-> "request", extra |-> "x"] }

\* The 'message' events of the model: every request of the policy table from
\* every window and every origin, and the near misses from one window. A
\* guest frame is never served from the origin of the hypothesis apps.
Events ==
  { e \in [source : Sources, origin : Origins, data : Data] :
      \/ /\ e.source \in Windows
         /\ e.data \in {Request("sidebar", "host"), Request("notebook", "sidebar")}
      \/ /\ e.source \in Windows
         /\ e.data \in {Request("guest", "host"), Request("guest", "sidebar")}
         /\ e.origin \notin AppsOrigins
      \/ /\ e.source = "w1"
         /\ e.origin = "https://evil.example"
      \/ /\ e.source = "port"
         /\ e.origin \in AppsOrigins
         /\ e.data \in {Request("guest", "host"), Request("sidebar", "host")} }

NoChannel == -1

\* One entry of the history. `source` and `origin` are those of the event
\* being handled, `frame1` and `frame2` those of the policy entry it matched;
\* `target`/`targetOrigin` are the arguments of a window
\* postMessage, `via` the channel whose port2 a message was posted on, `ch`
\* the MessageChannel whose port is recorded, transferred or emitted.
Effect(op, event) ==
  [op |-> op, source |-> event.source, origin |-> event.origin,
   frame1 |-> "", frame2 |-> "", ch |-> NoChannel, via |-> NoChannel,
   target |-> "", targetOrigin |-> "", err |-> ""]

Port1(ch) == <<ch, 1>>
Port2(ch) == <<ch, 2>>

-----------------------------------------------------------------------------
(* Collaborators imported by port-provider.js *)

\* port-util isSourceWindow: false for null, MessagePort and ServiceWorker
isSourceWindow(source) == source \in Windows

\* port-util isMessageEqual: structural equality of the message objects
isMessageEqual(data, message) == data = message

\* Window.postMessage(message, targetOrigin, transfer): only "*", "/" and
\* absolute URLs are legal target origins; the string "null" is none of them
ValidTargetOrigin(targetOrigin) == targetOrigin # "null"

-----------------------------------------------------------------------------
(* constructor *)

\* this._allowedMessages
allowedMessages ==
  << [allowedOrigin |-> "*", frame1 |-> "guest", frame2 |-> "host", type |-> "request"],
     [allowedOrigin |-> "*", frame1 |-> "guest", frame2 |-> "sidebar", type |-> "request"],
     [allowedOrigin |-> hypothesisAppsOrigin, frame1 |-> "sidebar", frame2 |-> "host",
      type |-> "request"],
     [allowedOrigin |-> hypothesisAppsOrigin, frame1 |-> "notebook", frame2 |-> "sidebar",
      type |-> "request"] >>

Init ==
  /\ hypothesisAppsOrigin \in AppsOrigins
  /\ sentChannels = [w \in {} |-> {}]
  /\ sidebarHostChannel = 0
  /\ channels = 1
  /\ detached = {}
  /\ listeners = 0
  /\ log = << >>
  /\ last = "none"

-----------------------------------------------------------------------------
(* _messageMatches *)

\* mutant: the origin is not compared
messageMatchesAnyOrigin(allowedMessage, allowedOrigin, data, origin) ==
  isMessageEqual(data, allowedMessage)

messageMatches(allowedMessage, allowedOrigin, data, origin) ==
  IF allowedOrigin # "*" /\ origin # allowedOrigin
    THEN FALSE
    ELSE isMessageEqual(data, allowedMessage)

\* the `...allowedMessage` rest of a policy entry
RestOf(entry) == [frame1 |-> entry.frame1, frame2 |-> entry.frame2, type |-> entry.type]

\* mutant: only frame1 and frame2 of the data are compared, not its type
FindMatchAnyType(data, origin) ==
  LET hits == { i \in 1..Len(allowedMessages) :
                  /\ allowedMessages[i].allowedOrigin \in {"*", origin}
                  /\ data.frame1 = allowedMessages[i].frame1
                  /\ data.frame2 = allowedMessages[i].frame2 }
  IN  IF hits = {} THEN 0 ELSE CHOOSE i \in hits : \A j \in hits : i <= j

\* this._allowedMessages.find(...): the index of the first matching entry,
\* 0 for undefined
FindMatch(data, origin) ==
  LET hits == { i \in 1..Len(allowedMessages) :
                  messageMatches(RestOf(allowedMessages[i]),
                                 allowedMessages[i].allowedOrigin, data, origin) }
  IN  IF hits = {} THEN 0 ELSE CHOOSE i \in hits : \A j \in hits : i <= j

\* `${frame1}-${frame2}`
ChannelOf(frame1, frame2) == frame1 \o "-" \o frame2

\* this._sentChannels.get(source), undefined being the empty set here
SentTo(sent, source) == IF source \in DOMAIN sent THEN sent[source] ELSE {}

-----------------------------------------------------------------------------
(* listen / handleRequest *)

\* The part of the state one invocation of handleRequest reads and writes;
\* `thrown` is the exception it ended with, "" for none.
HandlerState ==
  [sentChannels |-> sentChannels, channels |-> channels, detached |-> detached,
   log |-> log, thrown |-> ""]

\* mutant: one set of channels is shared by all the sources
RecordSentShared(st, event, match, channel) ==
  [st EXCEPT
     !.sentChannels = [w \in Windows |-> SentTo(@, w) \cup {channel}],
     !.log = Append(@, [Effect("record", event) EXCEPT
                          !.frame1 = match.frame1, !.frame2 = match.frame2])]

\* sentChannels.add(channel), after this._sentChannels.set(source, new Set())
\* when the source had no entry
RecordSent(st, event, match, channel) ==
  [st EXCEPT
     !.sentChannels =
        [w \in DOMAIN @ \cup {event.source} |->
           SentTo(@, w) \cup (IF w = event.source THEN {channel} ELSE {})],
     !.log = Append(@, [Effect("record", event) EXCEPT
                          !.frame1 = match.frame1, !.frame2 = match.frame2])]

\* mutant: the on-demand channel is created once and then reused
MessageChannelForCached(st, channel) ==
  IF channel = "sidebar-host" THEN sidebarHostChannel
  ELSE IF st.channels > 1 THEN 1 ELSE st.channels

\* mutant: the sidebar-host channel is created on demand like the others
MessageChannelForLazy(st, channel) == st.channels

\* channel === 'sidebar-host' ? this._sidebarHostChannel : new MessageChannel()
\* : the id of the MessageChannel the request is served with
MessageChannelFor(st, channel) ==
  IF channel = "sidebar-host" THEN sidebarHostChannel ELSE st.channels

ObtainChannel(st, event, match, channel) ==
  LET ch == MessageChannelFor(st, channel)
  IN  [st EXCEPT
         !.channels = IF ch = st.channels THEN @ + 1 ELSE @,
         !.log = Append(@, [Effect("obtain", event) EXCEPT
                              !.frame1 = match.frame1, !.frame2 = match.frame2,
                              !.ch = ch])]

\* mutant: the offer is posted for any origin
TargetOriginAny(origin) == "*"

\* the origin handed to source.postMessage as targetOrigin
TargetOrigin(origin) == origin

\* mutant: a failed postMessage takes the record of the grant back
PostToSourceRollback(st, event, match, ch) ==
  IF ~ValidTargetOrigin(TargetOrigin(event.origin)) \/ Port1(ch) \in st.detached
    THEN [st EXCEPT
            !.thrown = "Error",
            !.sentChannels =
               [w \in DOMAIN @ |->
                  IF w = event.source
                    THEN @[w] \ {ChannelOf(match.frame1, match.frame2)} ELSE @[w]]]
  ELSE [st EXCEPT
          !.detached = @ \cup {Port1(ch)},
          !.log = Append(@, [Effect("offer", event) EXCEPT
                               !.frame1 = match.frame1, !.frame2 = match.frame2,
                               !.ch = ch, !.target = event.source,
                               !.targetOrigin = TargetOrigin(event.origin)])]

\* source.postMessage(message, origin, [messageChannel.port1])
\* An illegal target origin is a SyntaxError, a port that was transferred
\* before a DataCloneError; otherwise the port leaves the host realm.
PostToSource(st, event, match, ch) ==
  IF ~ValidTargetOrigin(TargetOrigin(event.origin))
    THEN [st EXCEPT !.thrown = "SyntaxError"]
  ELSE IF Port1(ch) \in st.detached
    THEN [st EXCEPT !.thrown = "DataCloneError"]
  ELSE [st EXCEPT
          !.detached = @ \cup {Port1(ch)},
          !.log = Append(@, [Effect("offer", event) EXCEPT
                               !.frame1 = match.frame1, !.frame2 = match.frame2,
                               !.ch = ch, !.target = event.source,
                               !.targetOrigin = TargetOrigin(event.origin)])]

\* this._sidebarHostChannel.port2.postMessage(message, [messageChannel.port2])
PostToSidebar(st, event, match, ch) ==
  IF Port2(ch) \in st.detached \/ ch = sidebarHostChannel
    THEN [st EXCEPT !.thrown = "DataCloneError"]
    ELSE [st EXCEPT
            !.detached = @ \cup {Port2(ch)},
            !.log = Append(@, [Effect("relay", event) EXCEPT
                                 !.frame1 = match.frame1, !.frame2 = match.frame2,
                                 !.ch = ch, !.via = sidebarHostChannel])]

\* this._emitter.emit('frameConnected', frame1, messageChannel.port2)
EmitFrameConnected(st, event, match, ch) ==
  [st EXCEPT
     !.log = Append(@, [Effect("emit", event) EXCEPT
                          !.frame1 = match.frame1, !.frame2 = match.frame2, !.ch = ch])]

\* mutant: port2 is posted to the sidebar whoever the responder is, and then
\* given to the host when the responder is the host
RoutePort2Both(st, event, match, ch) ==
  LET posted == PostToSidebar(st, event, match, ch)
  IN  IF posted.thrown # "" \/ match.frame2 # "host" THEN posted
      ELSE EmitFrameConnected(posted, event, match, ch)

\* mutant: the branch for the host is missing
RoutePort2SidebarOnly(st, event, match, ch) ==
  IF match.frame2 = "sidebar" THEN PostToSidebar(st, event, match, ch) ELSE st

\* if (frame2 === 'sidebar') ... else if (frame2 === 'host') ...
RoutePort2(st, event, match, ch) ==
  IF match.frame2 = "sidebar" THEN PostToSidebar(st, event, match, ch)
  ELSE IF match.frame2 = "host" THEN EmitFrameConnected(st, event, match, ch)
  ELSE st

\* the channel id the latest "obtain" put in the log
ObtainedChannel(st) == st.log[Len(st.log)].ch

\* mutant: port2 is handed to the responder before port1 is offered
GrantRouteFirst(st, event, match, channel) ==
  LET recorded == RecordSent(st, event, match, channel)
      obtained == ObtainChannel(recorded, event, match, channel)
      ch       == ObtainedChannel(obtained)
      routed   == RoutePort2(obtained, event, match, ch)
  IN  IF routed.thrown # "" THEN routed ELSE PostToSource(routed, event, match, ch)

\* the body of handleRequest after the duplicate check
Grant(st, event, match, channel) ==
  LET recorded == RecordSent(st, event, match, channel)
      obtained == ObtainChannel(recorded, event, match, channel)
      ch       == ObtainedChannel(obtained)
      offered  == PostToSource(obtained, event, match, ch)
  IN  IF offered.thrown # "" THEN offered ELSE RoutePort2(offered, event, match, ch)

\* mutant: the registry is looked up for the wrong key and never has the channel
AlreadySentWrongKey(st, source, channel) == channel \in SentTo(st.sentChannels, channel)

\* sentChannels.has(channel)
AlreadySent(st, source, channel) == channel \in SentTo(st.sentChannels, source)

\* mutant: the check of the source is missing
handleRequestAnySource(st, event) ==
  LET found == FindMatch(event.data, event.origin)
  IN  IF found = 0 THEN st
      ELSE LET match   == allowedMessages[found]
               channel == ChannelOf(match.frame1, match.frame2)
           IN  IF AlreadySent(st, event.source, channel) THEN st
               ELSE Grant(st, event, match, channel)

handleRequest(st, event) ==
  IF ~isSourceWindow(event.source) THEN st
  ELSE LET found == FindMatch(event.data, event.origin)
       IN  IF found = 0 THEN st
           ELSE LET match   == allowedMessages[found]
                    channel == ChannelOf(match.frame1, match.frame2)
                IN  IF AlreadySent(st, event.source, channel) THEN st
                    ELSE Grant(st, event, match, channel)

\* frame-error-capture captureErrors(handleRequest, 'Handling port request'):
\* an exception of the callback is reported to the error sink
captureErrors(st, event) ==
  LET r == handleRequest([st EXCEPT !.thrown = ""], event)
  IN  IF r.thrown = "" THEN r
      ELSE [r EXCEPT !.log = Append(@, [Effect("error", event) EXCEPT !.err = r.thrown]),
                     !.thrown = ""]

\* the window delivers one 'message' event to each of the n registered
\* listeners in turn
RECURSIVE DispatchEvent(_, _, _)
DispatchEvent(st, event, n) ==
  IF n = 0 THEN st ELSE DispatchEvent(captureErrors(st, event), event, n - 1)

\* number of (source, channel) records made so far
Recorded(history) == Cardinality({ i \in 1..Len(history) : history[i].op = "record" })

\* What became of an event: nobody listened (to a request a listener would
\* have served, or to another event), the handler returned early (and at
\* which of its three checks), or it passed them and sent or threw.
Outcome(st, event, r) ==
  IF listeners = 0
    THEN (IF captureErrors(st, event).log # st.log THEN "unheardRequest" ELSE "unheard")
  ELSE IF r.log # st.log
    THEN (IF r.log[Len(r.log)].op = "error" THEN "threw" ELSE "granted")
  ELSE IF ~isSourceWindow(event.source) THEN "notWindow"
  ELSE IF FindMatch(event.data, event.origin) # 0 THEN "duplicate"
  ELSE IF \E origin \in Origins : FindMatch(event.data, origin) # 0 THEN "wrongOrigin"
  ELSE "noMatch"

\* a 'message' event arrives at the host window
Message(event) ==
  LET r == DispatchEvent(HandlerState, event, listeners)
  IN  /\ Recorded(r.log) <= MaxGrants
      /\ sentChannels' = r.sentChannels
      /\ channels' = r.channels
      /\ detached' = r.detached
      /\ log' = r.log
      /\ last' = Outcome(HandlerState, event, r)
      /\ UNCHANGED <<hypothesisAppsOrigin, sidebarHostChannel, listeners>>

\* mutant: listen() starts from an empty registry
ListenResets ==
  /\ listeners < MaxListeners
  /\ listeners' = listeners + 1
  /\ last' = "listen"
  /\ sentChannels' = [w \in {} |-> {}]
  /\ UNCHANGED <<hypothesisAppsOrigin, sidebarHostChannel, channels, detached, log>>

\* listen(): this._listeners.add(window, 'message', captureErrors(handleRequest, ...))
Listen ==
  /\ listeners < MaxListeners
  /\ listeners' = listeners + 1
  /\ last' = "listen"
  /\ UNCHANGED <<hypothesisAppsOrigin, sentChannels, sidebarHostChannel, channels,
                 detached, log>>

\* mutant: destroy() leaves the listeners registered
DestroyKeepsListeners ==
  /\ listeners' = listeners
  /\ last' = "destroy"
  /\ UNCHANGED <<hypothesisAppsOrigin, sentChannels, sidebarHostChannel, channels,
                 detached, log>>

\* destroy(): this._listeners.removeAll()
Destroy ==
  /\ listeners' = 0
  /\ last' = "destroy"
  /\ UNCHANGED <<hypothesisAppsOrigin, sentChannels, sidebarHostChannel, channels,
                 detached, log>>

Next ==
  \/ \E event \in Events : Message(event)
  \/ Listen
  \/ Destroy

Spec == Init /\ [][Next]_vars

-----------------------------------------------------------------------------
(* Reading the history *)

Channels == { ChannelOf(allowedMessages[i].frame1, allowedMessages[i].frame2) :
                i \in 1..Len(allowedMessages) }

\* the entries of kind `op` made while serving `channel` for `source`
Done(op, source, channel) ==
  { i \in 1..Len(log) : /\ log[i].op = op
                        /\ log[i].source = source
                        /\ ChannelOf(log[i].frame1, log[i].frame2) = channel }

Every(op) == { i \in 1..Len(log) : log[i].op = op }

-----------------------------------------------------------------------------
(* C1: for every (sender window, channel kind) at most one grant is ever   *)
(* made: the registry records it once, one channel is obtained for it, at   *)
(* most one offer is sent and port2 is routed at most once (one relay over  *)
(* the sidebar-host channel or one frameConnected notification), however    *)
(* often the sender repeats the request.                                    *)
C1_GrantedAtMostOnce ==
  \A source \in Windows, channel \in Channels :
    /\ Cardinality(Done("record", source, channel)) <= 1
    /\ Cardinality(Done("obtain", source, channel)) <= 1
    /\ Cardinality(Done("offer", source, channel)) <= 1
    /\ Cardinality(Done("relay", source, channel) \cup Done("emit", source, channel)) <= 1

\* a repeated request was just ignored, after an offer had been sent
C1_Witness ==
  /\ last = "duplicate"
  /\ Every("offer") # {}

-----------------------------------------------------------------------------
(* C2: a request for sidebar-host or notebook-sidebar whose origin is not   *)
(* the origin given to the constructor is never served: no channel is       *)
(* obtained, no offer is sent, nothing is relayed over the sidebar-host     *)
(* channel and no frameConnected is emitted for it.                         *)
OriginRestricted == {"sidebar-host", "notebook-sidebar"}

C2_OriginEnforced ==
  \A i \in 1..Len(log) :
    /\ log[i].op \in {"obtain", "offer", "relay", "emit"}
    /\ ChannelOf(log[i].frame1, log[i].frame2) \in OriginRestricted
    => log[i].origin = hypothesisAppsOrigin

\* a listening broker has just ignored a request of the policy table that
\* came from the wrong origin, and has served such a request from the right one
C2_Witness ==
  /\ last = "wrongOrigin"
  /\ \E i \in Every("offer") : ChannelOf(log[i].frame1, log[i].frame2) \in OriginRestricted

-----------------------------------------------------------------------------
\* the MessageChannels obtained for `channel` on behalf of `source`
ObtainedFor(source, channel) == { log[i].ch : i \in Done("obtain", source, channel) }

KindOf(entry) == ChannelOf(entry.frame1, entry.frame2)

(* C3, as claimed: for every channel kind, sidebar-host included, two       *)
(* different sender windows that are both granted the kind are served with  *)
(* different MessageChannels.                                               *)
C3_DistinctPairsEveryKind ==
  \A channel \in Channels : \A s1, s2 \in Windows :
    s1 # s2 => ObtainedFor(s1, channel) \cap ObtainedFor(s2, channel) = {}

(* C3, amended: two different sender windows granted the same kind other    *)
(* than sidebar-host are served with different MessageChannels, each created*)
(* for that grant; every sidebar-host grant is served with the one channel  *)
(* made by the constructor; and no port1 is sent to a window twice, so no   *)
(* two senders ever hold the same end1.                                     *)
C3_DistinctPairs ==
  /\ \A channel \in Channels \ {"sidebar-host"} : \A s1, s2 \in Windows :
       s1 # s2 => ObtainedFor(s1, channel) \cap ObtainedFor(s2, channel) = {}
  /\ \A source \in Windows : ObtainedFor(source, "sidebar-host") \subseteq {sidebarHostChannel}
  /\ \A i, j \in Every("offer") : i # j => log[i].ch # log[j].ch

\* both windows hold an offer for the same on-demand kind
C3_Witness ==
  \E channel \in Channels \ {"sidebar-host"} :
    \A source \in Windows : Done("offer", source, channel) # {}

-----------------------------------------------------------------------------
(* C4, as claimed: when a sidebar-host request is granted, the offer goes   *)
(* to the sender and port2 is posted over the sidebar-host channel.         *)
C4_SidebarHostRelayed ==
  \A source \in Windows :
    Done("record", source, "sidebar-host") # {}
    => /\ \E i \in Done("offer", source, "sidebar-host") : log[i].target = source
       /\ \E j \in Done("relay", source, "sidebar-host") : log[j].via = sidebarHostChannel

(* C4, amended: the first sidebar-host request that is granted is served    *)
(* with the constructor's channel: its port1 is posted to the sender's      *)
(* window at the apps origin, and its port2 is then given to the host by    *)
(* one frameConnected('sidebar', port2) notification; no message is ever    *)
(* posted over the sidebar-host channel for a sidebar-host request, nor     *)
(* carries a port of that channel.                                          *)
C4_SidebarHostNotified ==
  /\ \A i \in 1..Len(log) :
       /\ log[i].op = "record"
       /\ KindOf(log[i]) = "sidebar-host"
       /\ \A h \in 1..(i - 1) : ~(log[h].op = "record" /\ KindOf(log[h]) = "sidebar-host")
       => /\ Len(log) >= i + 3
          /\ log[i + 1].op = "obtain" /\ log[i + 1].ch = sidebarHostChannel
          /\ log[i + 2].op = "offer"
          /\ log[i + 2].ch = sidebarHostChannel
          /\ log[i + 2].target = log[i].source
          /\ log[i + 2].targetOrigin = hypothesisAppsOrigin
          /\ log[i + 3].op = "emit"
          /\ log[i + 3].frame1 = "sidebar"
          /\ log[i + 3].ch = sidebarHostChannel
  /\ \A j \in Every("relay") : KindOf(log[j]) # "sidebar-host" /\ log[j].ch # sidebarHostChannel

\* a sidebar-host request has been granted and the host was notified
C4_Witness ==
  \E i \in Every("emit") : log[i].frame1 = "sidebar" /\ log[i].ch = sidebarHostChannel

-----------------------------------------------------------------------------
(* C5: every request that matches the policy table from a window, and is    *)
(* the first for its (sender, kind), gets exactly one offer and exactly one *)
(* MessageChannel.                                                          *)
C5_EveryGrantOffers ==
  \A source \in Windows, channel \in Channels :
    Done("record", source, channel) # {}
    => /\ Cardinality(Done("offer", source, channel)) = 1
       /\ Cardinality(Done("obtain", source, channel)) = 1

-----------------------------------------------------------------------------
(* C6: every granted request whose responder is the host gets one direct    *)
(* offer and one frameConnected(frame1, port2) for the channel whose port1  *)
(* was offered, and that port2 is posted nowhere.                           *)
C6_HostResponderNotified ==
  \A source \in Windows, channel \in {"guest-host", "sidebar-host"} :
    Done("record", source, channel) # {}
    => /\ Cardinality(Done("offer", source, channel)) = 1
       /\ Cardinality(Done("emit", source, channel)) = 1
       /\ \A i \in Done("offer", source, channel), j \in Done("emit", source, channel) :
            /\ i < j
            /\ log[j].ch = log[i].ch
            /\ log[j].frame1 = log[i].frame1
            /\ \A k \in Every("relay") : log[k].ch # log[i].ch

-----------------------------------------------------------------------------
(* C7: every granted request whose responder is the sidebar has port2 of    *)
(* its new channel posted over port2 of the sidebar-host channel, and no    *)
(* frameConnected is emitted for it.                                        *)
C7_SidebarResponderRelayed ==
  \A source \in Windows, channel \in {"guest-sidebar", "notebook-sidebar"} :
    Done("record", source, channel) # {}
    => /\ Cardinality(Done("relay", source, channel)) = 1
       /\ \A j \in Done("relay", source, channel) :
            /\ log[j].via = sidebarHostChannel
            /\ log[j].ch \in ObtainedFor(source, channel)
            /\ log[j].ch # sidebarHostChannel
       /\ Done("emit", source, channel) = {}

-----------------------------------------------------------------------------
(* C8: the sidebar-host channel is the one the constructor made: it exists  *)
(* in every state, is never replaced, serves every sidebar-host grant and   *)
(* no other, and carries every relay.                                       *)
C8_SingletonFromConstruction ==
  /\ sidebarHostChannel = 0
  /\ sidebarHostChannel < channels
  /\ \A i \in Every("obtain") : (KindOf(log[i]) = "sidebar-host") <=> (log[i].ch = sidebarHostChannel)
  /\ \A j \in Every("relay") : log[j].via = sidebarHostChannel

\* a sidebar-host grant and a relay have both happened
C8_Witness ==
  /\ \E i \in Every("obtain") : KindOf(log[i]) = "sidebar-host"
  /\ Every("relay") # {}

-----------------------------------------------------------------------------
(* C9: while no listener is registered, and in particular from destroy()    *)
(* until the next listen(), no event changes the registry, creates a        *)
(* channel, transfers a port or adds an offer, relay, notification or error *)
(* to the history; destroy() itself leaves ports that were handed off as    *)
(* they are.                                                                *)
C9_NoServiceAfterDestroy ==
  [][ (listeners = 0 \/ last \in {"destroy", "unheard", "unheardRequest"} \/ last' = "destroy")
      => UNCHANGED <<sentChannels, channels, detached, log>> ]_vars

\* after grants and a destroy(), a request that a listener would have served
\* arrived and went unheard
C9_Witness ==
  /\ last = "unheardRequest"
  /\ Every("offer") # {}

-----------------------------------------------------------------------------
\* the request that `event` carries, if it is one of the policy table for its origin
PolicyEntries(event) ==
  { i \in 1..Len(allowedMessages) :
      /\ event.data = RestOf(allowedMessages[i])
      /\ allowedMessages[i].allowedOrigin \in {"*", event.origin} }

\* a request that the broker is in a position to serve: heard, from a window,
\* in the policy table, the first of its sender for the kind, answerable at
\* its origin, and with a port1 that is still the broker's to give
Servable(event) ==
  /\ listeners > 0
  /\ event.source \in Windows
  /\ PolicyEntries(event) # {}
  /\ \A i \in PolicyEntries(event) :
       /\ Done("record", event.source, KindOf(allowedMessages[i])) = {}
       /\ KindOf(allowedMessages[i]) = "sidebar-host" => Port1(sidebarHostChannel) \notin detached
  /\ ValidTargetOrigin(event.origin)

(* C10: an exception of the handler is reported and leaves the listener     *)
(* registered, and after a failure for one sender a servable request of     *)
(* another sender is served in full: recorded, a channel obtained, port1    *)
(* offered to the sender and port2 relayed or notified, with no error.      *)
C10_ErrorIsolated ==
  /\ last = "threw" => listeners > 0 /\ log[Len(log)].op = "error"
  /\ \A event \in Events :
       /\ Servable(event)
       /\ \E i \in Every("error") : log[i].source # event.source
       => LET r == DispatchEvent(HandlerState, event, listeners)
              n == Len(log)
          IN  /\ Len(r.log) = n + 4
              /\ SubSeq(r.log, 1, n) = log
              /\ r.log[n + 1].op = "record"
              /\ r.log[n + 2].op = "obtain"
              /\ r.log[n + 3].op = "offer" /\ r.log[n + 3].target = event.source
              /\ r.log[n + 4].op = (IF event.data.frame2 = "sidebar" THEN "relay" ELSE "emit")
              /\ r.log[n + 4].ch = r.log[n + 3].ch

\* a failure for one window was reported and a later request of the other
\* window was served
C10_Witness ==
  \E i \in Every("error"), j \in Every("offer") : i < j /\ log[i].source # log[j].source

-----------------------------------------------------------------------------
\* a grant that was recorded for (source, channel) and whose offer was not sent
FailedGrant(source, channel) ==
  /\ Done("record", source, channel) # {}
  /\ Done("offer", source, channel) = {}

(* C11: a grant that failed after it was recorded and before the offer was  *)
(* sent keeps its record in the registry, and from then on the sender gets  *)
(* no offer for that kind: every repetition of the request is a duplicate.  *)
C11_NoRollback ==
  /\ [](\A source \in Windows, channel \in Channels :
          FailedGrant(source, channel) => channel \in SentTo(sentChannels, source))
  /\ [][\A source \in Windows, channel \in Channels :
          FailedGrant(source, channel)
          => /\ channel \in SentTo(sentChannels', source)
             /\ Done("offer", source, channel)' = {}]_vars

\* no offer was ever sent, a grant failed, and its request was just repeated
\* and ignored as a duplicate
C11_Witness ==
  /\ last = "duplicate"
  /\ Every("offer") = {}
  /\ \E source \in Windows, channel \in Channels :
       FailedGrant(source, channel) /\ channel \in SentTo(sentChannels, source)

-----------------------------------------------------------------------------
\* entry k of the history sends on a port of MessageChannel ch or transfers one
Touches(k, ch) ==
  \/ log[k].via = ch
  \/ log[k].op \in {"offer", "relay", "emit"} /\ log[k].ch = ch

\* both ports of MessageChannel ch were handed off by entry n of the history
HandedOffBy(ch, n) ==
  /\ \E i \in 1..n : log[i].op = "offer" /\ log[i].ch = ch
  /\ \E j \in 1..n : log[j].op \in {"relay", "emit"} /\ log[j].ch = ch

(* C12, as claimed: once both ports of a MessageChannel were handed off,    *)
(* the broker never sends on or transfers a port of it again; the           *)
(* sidebar-host channel included.                                           *)
C12_HandsOffEveryPair ==
  \A ch \in 0..(channels - 1) : \A n \in 1..Len(log) :
    HandedOffBy(ch, n) => \A k \in (n + 1)..Len(log) : ~Touches(k, ch)

(* C12, amended: once both ports of a MessageChannel created on demand were *)
(* handed off, the broker never sends on or transfers a port of it again.   *)
(* The sidebar-host channel is the exception: after its port1 went to the   *)
(* sidebar and its port2 to frameConnected, the broker still posts every    *)
(* relay on its port2; its ports are transferred at most once each.         *)
C12_HandsOffOnDemandPairs ==
  /\ \A ch \in 1..(channels - 1) : \A n \in 1..Len(log) :
       HandedOffBy(ch, n) => \A k \in (n + 1)..Len(log) : ~Touches(k, ch)
  /\ Cardinality({ i \in Every("offer") : log[i].ch = sidebarHostChannel }) <= 1
  /\ Cardinality({ i \in Every("emit") : log[i].ch = sidebarHostChannel }) <= 1
  /\ \A k \in Every("relay") : log[k].via = sidebarHostChannel /\ log[k].ch # sidebarHostChannel

\* an on-demand channel was handed off and another request was granted after it
C12_Witness ==
  \E ch \in 1..(channels - 1) : \E n \in 1..Len(log) :
    /\ HandedOffBy(ch, n)
    /\ \E k \in (n + 1)..Len(log) : log[k].op \in {"relay", "emit"}

-----------------------------------------------------------------------------
\* an event the handler has to ignore: its source is no window, or its data
\* and origin are in no entry of the policy table, or its sender was already
\* recorded for the kind it asks for
Ignorable(event) ==
  \/ event.source \notin Windows
  \/ PolicyEntries(event) = {}
  \/ \E i \in PolicyEntries(event) :
       Done("record", event.source, KindOf(allowedMessages[i])) # {}

(* C13: an event that has to be ignored changes nothing: the registry, the  *)
(* channels created, the ports transferred and the history (offers, relays, *)
(* notifications, error reports) are after one handler, and after all the   *)
(* registered handlers, what they were before.                              *)
C13_SilentIgnore ==
  \A event \in Events :
    Ignorable(event)
    => /\ captureErrors(HandlerState, event) = HandlerState
       /\ DispatchEvent(HandlerState, event, listeners) = HandlerState

\* after an offer, a listening broker has just ignored an event from a
\* source that is no window or with data that is in no policy entry
C13_Witness ==
  /\ last \in {"notWindow", "noMatch"}
  /\ Every("offer") # {}

-----------------------------------------------------------------------------
(* C14: every offer is posted to the window that sent the request being     *)
(* served, with the origin of that request as target origin; so an offer    *)
(* for sidebar-host or notebook-sidebar is addressed to the apps origin.    *)
C14_OfferAddressing ==
  \A i \in Every("offer") :
    /\ log[i].target = log[i].source
    /\ log[i].target \in Windows
    /\ log[i].targetOrigin = log[i].origin
    /\ KindOf(log[i]) \in OriginRestricted => log[i].targetOrigin = hypothesisAppsOrigin

\* an offer of an origin-restricted kind and an offer to a guest at another
\* origin have both been sent
C14_Witness ==
  /\ \E i \in Every("offer") : KindOf(log[i]) \in OriginRestricted
  /\ \E j \in Every("offer") : log[j].targetOrigin # hypothesisAppsOrigin

-----------------------------------------------------------------------------
(* C15: every offer sent to a window follows, in the history, the record of *)
(* a request from that same window for that same kind, which is an entry of *)
(* the policy table for its origin; a window with no such request has no    *)
(* offer.                                                                   *)
C15_NoUnsolicitedOffer ==
  /\ \A i \in Every("offer") :
       /\ log[i].target \in Windows
       /\ \E j \in 1..(i - 1) :
            /\ log[j].op = "record"
            /\ log[j].source = log[i].target
            /\ KindOf(log[j]) = KindOf(log[i])
            /\ \E p \in 1..Len(allowedMessages) :
                 /\ KindOf(allowedMessages[p]) = KindOf(log[j])
                 /\ allowedMessages[p].allowedOrigin \in {"*", log[j].origin}
  /\ \A w \in Sources :
       (\A channel \in Channels : Done("record", w, channel) = {})
       => \A i \in Every("offer") : log[i].target # w

\* one window holds two offers, the other window was never recorded and
\* holds none
C15_Witness ==
  \E w \in Windows :
    /\ Cardinality({ i \in Every("offer") : log[i].target = w }) = 2
    /\ \A v \in Windows \ {w} : v \notin DOMAIN sentChannels

-----------------------------------------------------------------------------
\* entries i and j of the history are steps of serving one request
SameRequest(i, j) ==
  /\ log[i].source = log[j].source
  /\ log[i].origin = log[j].origin
  /\ log[j].op # "error" => KindOf(log[i]) = KindOf(log[j])

\* entries i and j of the history are about the same channel
SameChannel(i, j) == log[i].ch = log[j].ch

(* C16: the steps of serving a request come in the order of the code and    *)
(* are not mixed with those of another event: the record is the first step  *)
(* and the obtaining of the channel follows it at once; the offer follows   *)
(* the obtaining, and the relay or notification follows the offer, for the  *)
(* same request and channel; an error report follows the obtaining, in place*)
(* of the offer; a new record only follows a relay, notification or error.  *)
C16_StepOrder ==
  \A i \in 1..Len(log) :
    /\ log[i].op = "record"
       => /\ i > 1 => log[i - 1].op \in {"relay", "emit", "error"}
          /\ i < Len(log) /\ log[i + 1].op = "obtain" /\ SameRequest(i, i + 1)
    /\ log[i].op = "obtain"
       => /\ i > 1 /\ log[i - 1].op = "record" /\ SameRequest(i - 1, i)
          /\ i < Len(log) /\ log[i + 1].op \in {"offer", "error"} /\ SameRequest(i, i + 1)
    /\ log[i].op = "offer"
       => /\ i > 1 /\ log[i - 1].op = "obtain"
          /\ SameRequest(i - 1, i) /\ SameChannel(i - 1, i)
          /\ i < Len(log) /\ log[i + 1].op \in {"relay", "emit"}
          /\ SameRequest(i, i + 1) /\ SameChannel(i, i + 1)
    /\ log[i].op \in {"relay", "emit"}
       => i > 1 /\ log[i - 1].op = "offer" /\ SameRequest(i - 1, i) /\ SameChannel(i - 1, i)
    /\ log[i].op = "error"
       => i > 1 /\ log[i - 1].op = "obtain" /\ SameRequest(i - 1, i)

\* a request was served to its last step and then a request of another window
\* was served to its last step
C16_Witness ==
  \E i \in 1..Len(log) :
    /\ log[i].op \in {"relay", "emit"}
    /\ i + 4 = Len(log)
    /\ log[i + 1].op = "record"
    /\ log[i + 1].source # log[i].source
    /\ log[i + 4].op \in {"relay", "emit"}

-----------------------------------------------------------------------------
(* C17: the registry only grows: whatever the step (an event served, failed *)
(* or ignored, destroy(), listen()), every sender in it stays in it with    *)
(* every channel it had; so every request ever recorded is in it, and no    *)
(* channel is obtained twice for the same sender and kind.                  *)
C17_RegistryMonotone ==
  /\ [](\A source \in Windows, channel \in Channels :
          /\ Done("record", source, channel) # {} => channel \in SentTo(sentChannels, source)
          /\ Cardinality(Done("obtain", source, channel)) <= 1)
  /\ [][\A w \in DOMAIN sentChannels :
          /\ w \in DOMAIN sentChannels'
          /\ sentChannels[w] \subseteq sentChannels'[w]]_vars

\* listen() was just called on a broker that had served a request, seen one
\* fail and been destroyed, and the registry still has both senders
C17_Witness ==
  /\ last = "listen"
  /\ listeners = 1
  /\ Every("emit") \cup Every("relay") # {}
  /\ Every("error") # {}
  /\ DOMAIN sentChannels = Windows

-----------------------------------------------------------------------------
(* C18: every granted request whose responder is the sidebar, whether it    *)
(* comes before or after a sidebar-host request, has its port2 posted on    *)
(* port2 of the sidebar-host channel before the next request is recorded,   *)
(* so the relays are in the order of the grants and none is missing.        *)
C18_RelayedInGrantOrder ==
  \A i \in Every("record") :
    log[i].frame2 = "sidebar"
    => \E j \in Every("relay") :
         /\ i < j
         /\ \A k \in (i + 1)..j : log[k].op # "record"
         /\ log[j].source = log[i].source
         /\ KindOf(log[j]) = KindOf(log[i])
         /\ log[j].via = sidebarHostChannel

-----------------------------------------------------------------------------
\* the steps `op` that serving an event added to the history, r being the
\* handler state after the event
Added(r, op) == { k \in (Len(log) + 1)..Len(r.log) : r.log[k].op = op }

(* C19: with several handlers registered, every request of a window that is *)
(* in the policy table and is the first of its sender for the kind gets     *)
(* exactly one grant: one record, one channel, one offer and one relay or   *)
(* notification.                                                            *)
C19_ExactlyOneGrant ==
  listeners >= 2
  => \A event \in Events :
       /\ event.source \in Windows
       /\ PolicyEntries(event) # {}
       /\ \A i \in PolicyEntries(event) :
            Done("record", event.source, KindOf(allowedMessages[i])) = {}
       => LET r == DispatchEvent(HandlerState, event, listeners)
          IN  /\ Cardinality(Added(r, "record")) = 1
              /\ Cardinality(Added(r, "obtain")) = 1
              /\ Cardinality(Added(r, "offer")) = 1
              /\ Cardinality(Added(r, "relay") \cup Added(r, "emit")) = 1

====
